---- MODULE Spec2Model ----
(***************************************************************************)
(* GHOSTDAG engine of consensus/core (ghostdag.rs) as a state machine.     *)
(*                                                                         *)
(* Hashes are modelled as the integers 1..NumHashes, compared as the       *)
(* 32-byte digests are compared (lexicographically); 0 is Hash::default(), *)
(* the all-zero hash.  A block is its header; the header hash is           *)
(* content-defining, so a hash names one parents_by_level for ever and the *)
(* parent relation is acyclic.                                             *)
(***************************************************************************)
EXTENDS Integers, Sequences, FiniteSets, TLC

\* ---------------------------------------------------------------- bounds
NumHashes == 3
MaxParents == 2
MaxHighParents == 1
MaxAdds == 3
MaxClaimedScore == 1
MaxClaimedWork == 1
MaxClaimedDaa == 1
NumConcHashes == 4
NumReorgHashes == 5
NumDagHashes == 4
MaxDagParents == 3
NumFanHashes == 5
MaxMuCalls == 4
MaxIndex == 1
MaxDiffAdded == 2
MaxDiffRemoved == 2
MaxInputs == 3
MaxTxs == 3
MaxConcScore == 2
MaxConcBlocks == 3

\* the layout of Hash, scaled down from 8 bits a byte, 8 bytes a u64 word
\* and 4 words a hash
BitsPerByte == 1
BytesPerWord == 2
WordsPerHash == 2

\* the values of the k parameter the engine is constructed with
KValues == {0, 1, 3}

Hashes == 1..NumHashes
DagHashes == 1..NumDagHashes
ReorgHashes == 1..NumReorgHashes
ConcHashes == 1..NumConcHashes
FanHashes == 1..NumFanHashes
ZeroHash == 0

\* the value standing for Err(ConsensusError::NoValidParent)
NoValidParent == -1

VARIABLES
    k,                \* GhostDag.k
    block_relations,  \* GhostDag.block_relations : Hash -> BlockRelations
    blue_scores,      \* GhostDag.blue_scores     : Hash -> u64
    header,           \* Hash -> parents_by_level of the block with that hash
    last,             \* the latest add_block call: its block and what it returned
    adds,             \* number of add_block calls made
    virtual_state,    \* ChainSelector.virtual_state
    claimed,          \* Hash -> the blue_score, blue_work, daa_score fields of that header
    pending,          \* the block add_block accepted whose update_virtual_state is due
    upd,              \* the latest update_virtual_state call: its block and the state it found
    tip,              \* the latest select_tip call and what it returned
    reorg,            \* the latest handle_reorg call and what it computed
    conc,             \* the add_block calls in progress on concurrent threads
    utxos,            \* UtxoCollection.utxos : OutPoint -> TxOutput
    muhash,           \* UtxoCollection.muhash: the MuHash state
    ucall,            \* the latest UtxoCollection call, what it found and what it returned
    applying,         \* the apply_diff call in progress, insert by insert
    view,             \* UtxoView.utxos of the view in hand
    vcall,            \* the latest validate_tx call and what it returned
    mu,               \* a MuHash on its own: its state and the calls made on it
    bcall,            \* the latest Block::validate call and what it returned
    pow,              \* the latest target_from_bits or validate_mining_rules call
    twin,             \* a second GhostDag given the same blocks in an order of its own
    vconc             \* the update_virtual_state calls in progress on concurrent threads

engineVars == <<k, block_relations, blue_scores, header, last, adds>>

chainVars == <<virtual_state, claimed, pending, upd, tip, reorg, conc>>

storeVars == <<utxos, muhash, ucall, applying, view, vcall, mu, bcall>>

auxVars == <<pow, twin, vconc>>

vars == <<k, block_relations, blue_scores, header, last, adds,
          virtual_state, claimed, pending, upd, tip, reorg, conc,
          utxos, muhash, ucall, applying, view, vcall, mu, bcall,
          pow, twin, vconc>>

\* ---------------------------------------------------------------- helpers
Range(s) == {s[i] : i \in 1..Len(s)}

SeqsUpTo(S, n) == UNION {[1..m -> S] : m \in 0..n}

RECURSIVE Flatten(_)
Flatten(levels) ==
    IF levels = <<>> THEN <<>> ELSE Head(levels) \o Flatten(Tail(levels))

Contains(s, x) == \E i \in 1..Len(s) : s[i] = x

NoDuplicates(s) == \A i, j \in 1..Len(s) : i # j => s[i] # s[j]

\* the headers a block may carry: level 0 and at most one higher level
HeaderSpace ==
    {<<>>}
    \cup {<<l0>> : l0 \in SeqsUpTo(Hashes, MaxParents)}
    \cup {<<l0, l1>> : l0 \in SeqsUpTo(Hashes, MaxParents),
                       l1 \in SeqsUpTo(Hashes, MaxHighParents)}

\* Block::is_genesis
is_genesis(parents_by_level) ==
    \A i \in 1..Len(parents_by_level) : parents_by_level[i] = <<>>

\* ancestors of the hashes in S according to the headers (the DAG itself)
RECURSIVE HeaderPast(_, _)
HeaderPast(hdr, S) ==
    LET up == UNION {Range(Flatten(hdr[h])) : h \in S \cap DOMAIN hdr}
    IN  IF up \subseteq S THEN S ELSE HeaderPast(hdr, S \cup up)

\* proper ancestors of h in the DAG of headers
Ancestors(hdr, h) ==
    IF h \in DOMAIN hdr
    THEN LET ps == Range(Flatten(hdr[h]))
         IN  IF ps = {} THEN {} ELSE HeaderPast(hdr, ps)
    ELSE {}

\* ------------------------------------------------- GhostDag (ghostdag.rs)

\* the children list of a hash, empty when the hash has no relations
ChildrenOf(rels, h) == IF h \in DOMAIN rels THEN rels[h].children ELSE <<>>

ParentsOf(rels, h) == IF h \in DOMAIN rels THEN rels[h].parents ELSE <<>>

\* calculate_anticone_size_optimized: the while loop over to_visit
RECURSIVE AnticoneLoop(_, _, _, _, _, _)
AnticoneLoop(rels, block_hash, visited, to_visit, visited_local, size) ==
    IF to_visit = <<>> THEN size
    ELSE LET current == Head(to_visit)
             rest == Tail(to_visit)
         IN  IF current \in visited_local \/ current \in visited
             THEN AnticoneLoop(rels, block_hash, visited, rest, visited_local, size)
             ELSE AnticoneLoop(rels, block_hash, visited,
                               rest \o ChildrenOf(rels, current),
                               visited_local \cup {current},
                               IF current # block_hash THEN size + 1 ELSE size)

calculate_anticone_size_optimized(rels, block_hash, visited) ==
    AnticoneLoop(rels, block_hash, visited, <<block_hash>>, {}, 0)

\* the visited test of calculate_blue_set's loop
AlreadyVisitedNever(visited, current) == FALSE

AlreadyVisited(visited, current) == current \in visited

\* calculate_blue_set: the while loop over queue; yields <<blue_set, red_set>>
RECURSIVE BlueSetLoop(_, _, _, _, _, _)
BlueSetLoop(rels, kk, queue, visited, blue_set, red_set) ==
    IF queue = <<>> THEN <<blue_set, red_set>>
    ELSE LET current == Head(queue)
             rest == Tail(queue)
         IN  IF AlreadyVisited(visited, current)
             THEN BlueSetLoop(rels, kk, rest, visited, blue_set, red_set)
             ELSE LET anticone_size ==
                          calculate_anticone_size_optimized(rels, current, {})
                      isBlue == anticone_size <= kk
                  IN  BlueSetLoop(rels, kk,
                                  rest \o ParentsOf(rels, current),
                                  visited \cup {current},
                                  IF isBlue THEN Append(blue_set, current) ELSE blue_set,
                                  IF isBlue THEN red_set ELSE Append(red_set, current))

calculate_blue_set(rels, kk, parents) ==
    BlueSetLoop(rels, kk, parents, {}, <<>>, <<>>)

\* the selected-parent loop without `current = parent`
StayAtCurrent(rels, current) == current

\* `current = parent` of the selected-parent loops: the block has relations
NextOnChain(rels, current) == rels[current].selected_parent

\* is_in_past_cone: the while loop, given at most `turns` turns; done says
\* whether the loop was left within them
RECURSIVE PastConeLoop(_, _, _, _)
PastConeLoop(rels, current, reference, turns) ==
    IF current = reference THEN [done |-> TRUE, value |-> TRUE]
    ELSE IF current \notin DOMAIN rels THEN [done |-> TRUE, value |-> FALSE]
    ELSE IF turns = 0 THEN [done |-> FALSE, value |-> FALSE]
    ELSE PastConeLoop(rels, NextOnChain(rels, current), reference, turns - 1)

is_in_past_cone(rels, candidate, reference, turns) ==
    PastConeLoop(rels, candidate, reference, turns)

\* the key of select_parent's max_by_key
ScoreKey(scores, parent) == IF parent \in DOMAIN scores THEN scores[parent] ELSE 0

\* the index max_by_key settles on: it reduces with
\* (Ordering::Greater => a, _ => b), so of the items with the maximum key the
\* last listed one is kept
MaxByKeyIndex(scores, parents) ==
    CHOOSE i \in 1..Len(parents) :
        /\ \A j \in 1..Len(parents) :
              ScoreKey(scores, parents[j]) <= ScoreKey(scores, parents[i])
        /\ \A j \in (i+1)..Len(parents) :
              ScoreKey(scores, parents[j]) < ScoreKey(scores, parents[i])

\* select_parent without its genesis branch: ok_or(NoValidParent) on no item
select_parent_no_genesis_branch(scores, parents) ==
    IF parents = <<>> THEN NoValidParent
    ELSE parents[MaxByKeyIndex(scores, parents)]

\* select_parent
select_parent(scores, parents) ==
    IF parents = <<>> THEN ZeroHash
    ELSE parents[MaxByKeyIndex(scores, parents)]

\* calculate_blue_work_proper: one unit of work per element of blue_set
calculate_blue_work_proper(blue_set) == Len(blue_set)

\* the visited set calculate_blues_anticone_sizes is handed by add_block
AnticoneVisitedNone(all_parents) == {}

AnticoneVisited(all_parents) == Range(all_parents)

\* calculate_blues_anticone_sizes
calculate_blues_anticone_sizes(rels, blue_set, parents) ==
    [b \in Range(blue_set) |-> calculate_anticone_size_optimized(rels, b, parents)]

\* add_block without its loop over all_parents
PushNoChildren(rels, parents, h) == rels

\* the children lists after add_block's loop over all_parents: one push per
\* listed parent that has relations
RECURSIVE PushChildren(_, _, _)
PushChildren(rels, parents, h) ==
    IF parents = <<>> THEN rels
    ELSE LET parent == Head(parents)
             next == IF parent \in DOMAIN rels
                     THEN [rels EXCEPT ![parent].children = Append(@, h)]
                     ELSE rels
         IN  PushChildren(next, Tail(parents), h)

\* what the caller of add_block holds afterwards: the block and the result
CallRecord(h, pbl, ok, data) ==
    [block |-> h,
     parents_by_level |-> pbl,
     is_genesis |-> is_genesis(pbl),
     fresh |-> h \notin DOMAIN block_relations,
     parents_known |-> Range(Flatten(pbl)) \subseteq DOMAIN block_relations,
     ok |-> ok,
     data |-> data]

\* GhostDagData::default()
DefaultData ==
    [blue_score |-> 0, blue_work |-> 0, selected_parent |-> ZeroHash,
     merge_set_blues |-> <<>>, merge_set_reds |-> <<>>,
     blues_anticone_sizes |-> <<>>]

\* add_block(block) with block.hash() = h and header.parents_by_level = pbl
add_block(h, pbl) ==
    LET all_parents == Flatten(pbl)
        sets == calculate_blue_set(block_relations, k, all_parents)
        blue_set == sets[1]
        red_set == sets[2]
        selected_parent == select_parent(blue_scores, all_parents)
        blue_work == calculate_blue_work_proper(blue_set)
        blue_score == Len(blue_set)
        relations == [parents |-> all_parents,
                      children |-> <<>>,
                      is_blue |-> Contains(blue_set, h),
                      blue_score |-> blue_score,
                      selected_parent |-> selected_parent,
                      merge_set_blues |-> blue_set,
                      merge_set_reds |-> red_set]
        inserted == (h :> relations) @@ block_relations
        committed == PushChildren(inserted, all_parents, h)
        blues_anticone_sizes ==
            calculate_blues_anticone_sizes(committed, blue_set, AnticoneVisited(all_parents))
    IN  IF selected_parent = NoValidParent
        THEN \* the ? after select_parent: nothing has been written yet
             /\ last' = CallRecord(h, pbl, FALSE, DefaultData)
             /\ adds' = adds + 1
             /\ UNCHANGED <<k, block_relations, blue_scores>>
        ELSE /\ block_relations' = committed
             /\ blue_scores' = (h :> blue_score) @@ blue_scores
             /\ last' = CallRecord(h, pbl, TRUE,
                            [blue_score |-> blue_score,
                             blue_work |-> blue_work,
                             selected_parent |-> selected_parent,
                             merge_set_blues |-> blue_set,
                             merge_set_reds |-> red_set,
                             blues_anticone_sizes |-> blues_anticone_sizes])
             /\ adds' = adds + 1
             /\ UNCHANGED k

\* ---------------------------------------------------------------- actions
NoCall ==
    [block |-> ZeroHash, parents_by_level |-> <<>>, is_genesis |-> TRUE,
     fresh |-> FALSE, parents_known |-> FALSE, ok |-> FALSE, data |-> DefaultData]

\* VirtualState::default()
DefaultVirtualState ==
    [selected_tip |-> ZeroHash, blue_score |-> 0, daa_score |-> 0, merge_set |-> <<>>]

NoUpdateCall ==
    [called |-> FALSE, block |-> ZeroHash, some_data |-> FALSE, merge_set_blues |-> <<>>,
     before |-> DefaultVirtualState]

NoTipCall == [called |-> FALSE, ok |-> FALSE, value |-> ZeroHash]

NoReorgCall ==
    [called |-> FALSE, ok |-> FALSE, old_tip |-> ZeroHash, new_tip |-> ZeroHash,
     added |-> <<>>, removed |-> <<>>]

\* MuHash::new
MuHashNew == ZeroHash

\* a MuHash on its own: mu.start is the state at the moment taken as the
\* beginning, mu.log the add and remove calls made since
NoMuHashCalls == [state |-> MuHashNew, start |-> MuHashNew, log |-> <<>>]

\* UtxoDiff::new
EmptyDiff == [added |-> <<>>, removed |-> <<>>]

NoUtxoCall ==
    [op |-> "none", arg |-> <<>>, ok |-> FALSE, err |-> "", value |-> <<>>,
     before_utxos |-> <<>>, before_muhash |-> MuHashNew]

NoDiffInProgress ==
    [active |-> FALSE, diff |-> EmptyDiff, pre |-> <<>>, next_added |-> 1,
     next_removed |-> 1]

NoValidateTxCall ==
    [called |-> FALSE, inputs |-> <<>>, before |-> <<>>, ok |-> FALSE, err |-> "",
     outpoint |-> <<>>]

\* [u8; 32], u32::to_be_bytes, the bytes of a mantissa, the shift that no
\* longer fits
TargetLen == 32
U32Len == 4
MantissaLen == 3
MaxTargetShift == 29

ZeroTarget == [i \in 1..TargetLen |-> 0]

NoPowBlock ==
    [parents_by_level |-> <<<<>>>>, bits |-> [i \in 1..U32Len |-> 0],
     hash |-> ZeroTarget, ghostdag_data |-> <<>>]

NoPowCall ==
    [op |-> "none", bits |-> [i \in 1..U32Len |-> 0], target |-> ZeroTarget,
     block |-> NoPowBlock, pow_ok |-> FALSE, ok |-> FALSE, err |-> ""]

\* GhostDag::new: both maps empty
NewGhostDag == [relations |-> <<>>, scores |-> <<>>]

NoBlockValidateCall ==
    [called |-> FALSE, merkle_root |-> <<ZeroHash>>, transactions |-> <<>>, ok |-> FALSE,
     err |-> ""]

Init ==
    /\ k \in KValues
    /\ block_relations = <<>>
    /\ blue_scores = <<>>
    /\ header = <<>>
    /\ last = NoCall
    /\ adds = 0
    /\ virtual_state = DefaultVirtualState
    /\ claimed = <<>>
    /\ pending = ZeroHash
    /\ upd = NoUpdateCall
    /\ tip = NoTipCall
    /\ reorg = NoReorgCall
    /\ conc = <<>>
    /\ utxos = <<>>
    /\ muhash = MuHashNew
    /\ ucall = NoUtxoCall
    /\ applying = NoDiffInProgress
    /\ view = <<>>
    /\ vcall = NoValidateTxCall
    /\ mu = NoMuHashCalls
    /\ bcall = NoBlockValidateCall
    /\ pow = NoPowCall
    /\ twin = NewGhostDag
    /\ vconc = <<>>

\* the store and the validations do not use the engine: one k stands for all
StoreInit == Init /\ k = 3

\* A block is submitted for the first time: its header is fixed from now on.
\* The header may name parents the engine has not seen, but never the block
\* itself or one of its descendants (a header hash commits to its parents).
SubmitNew(h, pbl) ==
    /\ h \notin DOMAIN header
    /\ h \notin Range(Flatten(pbl))
    /\ \A p \in Range(Flatten(pbl)) : h \notin Ancestors(header, p)
    /\ header' = (h :> pbl) @@ header
    /\ add_block(h, pbl)

\* any caller, any block: unknown parents, repeated parents and higher parent
\* levels included
AddNewBlock(h, pbl) ==
    /\ adds < MaxAdds
    /\ SubmitNew(h, pbl)
    /\ UNCHANGED <<chainVars, storeVars, auxVars>>

\* the same block is submitted again
ReAddBlock(h) ==
    /\ adds < MaxAdds
    /\ h \in DOMAIN header
    /\ UNCHANGED header
    /\ add_block(h, header[h])
    /\ UNCHANGED <<chainVars, storeVars, auxVars>>

Next ==
    \/ \E h \in Hashes, pbl \in HeaderSpace : AddNewBlock(h, pbl)
    \/ \E h \in Hashes : ReAddBlock(h)

Spec == Init /\ [][Next]_vars

\* ------------------------------------------- well-formed block sequences
\* Every block is submitted once, after all its parents; one parent level;
\* no parent listed twice; one genesis.
ParentLists(S, n) == {ps \in SeqsUpTo(S, n) : ps # <<>> /\ NoDuplicates(ps)}

DagGenesis(h) ==
    /\ DOMAIN block_relations = {}
    /\ SubmitNew(h, << <<>> >>)
    /\ UNCHANGED <<chainVars, storeVars, auxVars>>

DagBlock(h, ps) ==
    /\ DOMAIN block_relations # {}
    /\ SubmitNew(h, <<ps>>)
    /\ UNCHANGED <<chainVars, storeVars, auxVars>>

NextDag ==
    \/ \E h \in DagHashes : DagGenesis(h)
    \/ \E h \in DagHashes :
          \E ps \in ParentLists(DOMAIN block_relations, MaxDagParents) : DagBlock(h, ps)

SpecDag == Init /\ [][NextDag]_vars

\* ------------------------------------- genesis, parallel blocks, a merge
\* The blocks whose only parent is the genesis block
IsGenesisBlock(h) == h \in DOMAIN header /\ is_genesis(header[h])

ChildrenOfGenesis ==
    {h \in DOMAIN header : Len(header[h]) = 1 /\ Len(header[h][1]) = 1
                             /\ IsGenesisBlock(header[h][1][1])}

Merged == \E h \in DOMAIN header : Len(header[h]) = 1 /\ Len(header[h][1]) > 1

FanGenesis(h) ==
    /\ DOMAIN block_relations = {}
    /\ SubmitNew(h, << <<>> >>)
    /\ UNCHANGED <<chainVars, storeVars, auxVars>>

FanParallel(h, g) ==
    /\ IsGenesisBlock(g)
    /\ ~Merged
    /\ SubmitNew(h, << <<g>> >>)
    /\ UNCHANGED <<chainVars, storeVars, auxVars>>

\* a block over all the parallel blocks, listed in any order
FanMerge(h, ps) ==
    /\ ~Merged
    /\ Len(ps) > 1
    /\ Range(ps) = ChildrenOfGenesis
    /\ SubmitNew(h, <<ps>>)
    /\ UNCHANGED <<chainVars, storeVars, auxVars>>

NextFan ==
    \/ \E h \in FanHashes : FanGenesis(h)
    \/ \E h \in FanHashes, g \in DOMAIN header : FanParallel(h, g)
    \/ \E h \in FanHashes :
          \E ps \in ParentLists(ChildrenOfGenesis, Cardinality(ChildrenOfGenesis)) :
              FanMerge(h, ps)

SpecFan == Init /\ [][NextFan]_vars

\* ------------------------------------- ChainSelector (chain_selection.rs)
\* In the specifications of the chain selector a new block takes the next
\* unused hash.  The engine and the selector only test hashes for equality
\* and use them as map keys, so every run is a renaming of one of these.
NextHash == Cardinality(DOMAIN header) + 1

\* all the orders in which a set of hashes can come out of an iteration
Orders(S) == {o \in [1..Cardinality(S) -> S] : Range(o) = S}

\* the childless test of get_all_tips, without looking at the children
IsTipAlways(rels, h) == TRUE

\* the childless test of get_all_tips
IsTip(rels, h) == rels[h].children = <<>>

\* get_all_tips: the DashMap is iterated in an order the caller cannot
\* choose, so the tips can come out in any order
get_all_tips(rels) == Orders({h \in DOMAIN rels : IsTip(rels, h)})

\* select_tip on the tips as the iteration delivered them: <<ok, hash>>
select_tip(scores, tips) ==
    IF tips = <<>> THEN <<FALSE, ZeroHash>>
    ELSE <<TRUE, tips[MaxByKeyIndex(scores, tips)]>>

SelectTip ==
    /\ ~tip.called
    /\ \E tips \in get_all_tips(block_relations) :
          LET res == select_tip(blue_scores, tips)
          IN  tip' = [called |-> TRUE, ok |-> res[1], value |-> res[2]]
    /\ UNCHANGED <<engineVars, virtual_state, claimed, pending, upd, reorg, conc, storeVars, auxVars>>

\* add_block through the selector's engine; a select_tip result obtained
\* before is out of date afterwards
TipAddBlock(pbl) ==
    /\ adds < MaxAdds
    /\ NextHash \in Hashes
    /\ SubmitNew(NextHash, pbl)
    /\ tip' = NoTipCall
    /\ UNCHANGED <<virtual_state, claimed, pending, upd, reorg, conc, storeVars, auxVars>>

TipReAddBlock(h) ==
    /\ adds < MaxAdds
    /\ h \in DOMAIN header
    /\ UNCHANGED header
    /\ add_block(h, header[h])
    /\ tip' = NoTipCall
    /\ UNCHANGED <<virtual_state, claimed, pending, upd, reorg, conc, storeVars, auxVars>>

NextTip ==
    \/ \E pbl \in HeaderSpace : TipAddBlock(pbl)
    \/ \E h \in Hashes : TipReAddBlock(h)
    \/ SelectTip

SpecTip == Init /\ [][NextTip]_vars

\* the header fields update_virtual_state reads, and blue_work beside them
ClaimedFields ==
    [blue_score : 0..MaxClaimedScore, blue_work : 0..MaxClaimedWork,
     daa_score : 0..MaxClaimedDaa]

\* what update_virtual_state writes under the write lock
RewrittenState(h, some_data, blues) ==
    [selected_tip |-> h,
     blue_score |-> claimed[h].blue_score,
     daa_score |-> claimed[h].daa_score,
     merge_set |-> IF some_data THEN blues ELSE <<>>]

\* the comparison of update_virtual_state
HigherBlueScore(new_blue_score, current_blue_score) ==
    new_blue_score > current_blue_score

\* update_virtual_state(new_block); the block carries ghostdag_data or not
update_virtual_state(h, some_data) ==
    LET blues == IF some_data /\ h \in DOMAIN block_relations
                 THEN block_relations[h].merge_set_blues ELSE <<>>
    IN  /\ upd' = [called |-> TRUE, block |-> h, some_data |-> some_data,
                   merge_set_blues |-> blues, before |-> virtual_state]
        /\ virtual_state' =
              IF HigherBlueScore(claimed[h].blue_score, virtual_state.blue_score)
              THEN RewrittenState(h, some_data, blues)
              ELSE virtual_state

\* a block is built, the engine accepts it, its update_virtual_state is due
VirtualAddBlock(ps, fields) ==
    /\ pending = ZeroHash
    /\ NextHash \in Hashes
    /\ SubmitNew(NextHash, <<ps>>)
    /\ claimed' = (NextHash :> fields) @@ claimed
    /\ pending' = NextHash
    /\ upd' = NoUpdateCall
    /\ UNCHANGED <<virtual_state, tip, reorg, conc, storeVars, auxVars>>

\* the update_virtual_state that follows the add_block
UpdateVirtualState(some_data) ==
    /\ pending # ZeroHash
    /\ update_virtual_state(pending, some_data)
    /\ pending' = ZeroHash
    /\ UNCHANGED <<engineVars, claimed, tip, reorg, conc, storeVars, auxVars>>

\* update_virtual_state called once more, for any block built so far
UpdateVirtualStateAgain(h, some_data) ==
    /\ pending = ZeroHash
    /\ h \in DOMAIN claimed
    /\ update_virtual_state(h, some_data)
    /\ UNCHANGED <<engineVars, claimed, pending, tip, reorg, conc, storeVars, auxVars>>

NextVirtual ==
    \/ \E fields \in ClaimedFields :
          \/ DOMAIN block_relations = {} /\ VirtualAddBlock(<<>>, fields)
          \/ /\ DOMAIN block_relations # {}
             /\ \E ps \in ParentLists(DOMAIN block_relations, MaxParents) :
                   VirtualAddBlock(ps, fields)
    \/ \E some_data \in BOOLEAN : UpdateVirtualState(some_data)
    \/ \E h \in Hashes : \E some_data \in BOOLEAN : UpdateVirtualStateAgain(h, some_data)

SpecVirtual == Init /\ [][NextVirtual]_vars

\* the first loop of find_common_ancestor, keeping block1 alone
CollectOnlyBlock1(rels, current, ancestors1) == ancestors1 \cup {current}

\* the first loop of find_common_ancestor: block1 and what its
\* selected_parent links lead to, up to the first hash without relations
RECURSIVE CollectAncestors(_, _, _)
CollectAncestors(rels, current, ancestors1) ==
    IF current \in DOMAIN rels
    THEN CollectAncestors(rels, rels[current].selected_parent, ancestors1 \cup {current})
    ELSE ancestors1 \cup {current}

\* the second loop of find_common_ancestor: <<found, hash>>
RECURSIVE FirstCommon(_, _, _)
FirstCommon(rels, current, ancestors1) ==
    IF current \in ancestors1 THEN <<TRUE, current>>
    ELSE IF current \in DOMAIN rels
         THEN FirstCommon(rels, rels[current].selected_parent, ancestors1)
         ELSE <<FALSE, ZeroHash>>

find_common_ancestor(rels, block1, block2) ==
    FirstCommon(rels, block2, CollectAncestors(rels, block1, {}))

\* the two while loops of calculate_reorg_path
RECURSIVE PathTo(_, _, _, _)
PathTo(rels, current, common_ancestor, path) ==
    IF current = common_ancestor THEN path
    ELSE IF current \in DOMAIN rels
         THEN PathTo(rels, rels[current].selected_parent, common_ancestor,
                     Append(path, current))
         ELSE Append(path, current)

\* added as the loop pushed it, new_tip first
NotReversed(path) == path

\* added.reverse()
Reversed(path) == [i \in 1..Len(path) |-> path[Len(path) + 1 - i]]

calculate_reorg_path(rels, old_tip, new_tip) ==
    LET common == find_common_ancestor(rels, old_tip, new_tip)
    IN  IF ~common[1]
        THEN [ok |-> FALSE, added |-> <<>>, removed |-> <<>>]
        ELSE [ok |-> TRUE,
              added |-> Reversed(PathTo(rels, new_tip, common[2], <<>>)),
              removed |-> PathTo(rels, old_tip, common[2], <<>>)]

calculate_virtual_state_for_tip(rels, scores, t) ==
    [selected_tip |-> t,
     blue_score |-> IF t \in DOMAIN scores THEN scores[t] ELSE 0,
     daa_score |-> IF t \in DOMAIN rels THEN rels[t].blue_score ELSE 0,
     merge_set |-> IF t \in DOMAIN rels THEN rels[t].merge_set_blues ELSE <<>>]

\* handle_reorg(old_tip, new_tip); added and removed are the values it binds
\* to _added and _removed
handle_reorg(old_tip, new_tip) ==
    LET path == calculate_reorg_path(block_relations, old_tip, new_tip)
    IN  /\ reorg' = [called |-> TRUE, ok |-> path.ok, old_tip |-> old_tip,
                     new_tip |-> new_tip, added |-> path.added,
                     removed |-> path.removed]
        /\ virtual_state' =
              IF path.ok
              THEN calculate_virtual_state_for_tip(block_relations, blue_scores, new_tip)
              ELSE virtual_state

HandleReorg(old_tip, new_tip) ==
    /\ ~reorg.called
    /\ handle_reorg(old_tip, new_tip)
    /\ UNCHANGED <<engineVars, claimed, pending, upd, tip, conc, storeVars, auxVars>>

\* the engine before the reorganisation: every block is a genesis block or
\* has one parent, a known block or a hash no block was built for yet
ReorgAddBlock(ps) ==
    /\ ~reorg.called
    /\ NextHash \in ReorgHashes
    /\ SubmitNew(NextHash, <<ps>>)
    /\ UNCHANGED <<chainVars, storeVars, auxVars>>

NextReorg ==
    \/ \E ps \in {<<>>} \cup {<<p>> : p \in ReorgHashes} : ReorgAddBlock(ps)
    \/ \E old_tip \in ReorgHashes : \E new_tip \in ReorgHashes :
          HandleReorg(old_tip, new_tip)

SpecReorg == Init /\ [][NextReorg]_vars

\* ------------------------------------------- add_block, statement by statement
\* Two add_block calls run on two threads.  A step is one statement of
\* add_block that reads or writes the shared maps; the two traversals
\* (calculate_blue_set, calculate_blues_anticone_sizes) are taken as one step
\* each, which leaves out interleavings inside a traversal and adds none.
Threads == {"X", "Y"}

\* the locals of add_block when the call starts
StartLocals(h, pbl) ==
    [pc |-> "calculate_blue_set", block |-> h, all_parents |-> Flatten(pbl),
     blue_set |-> <<>>, red_set |-> <<>>, selected_parent |-> ZeroHash,
     next_parent |-> 1, ok |-> FALSE, data |-> DefaultData]

\* the engine before the two calls: blocks added one at a time, each after
\* its parents
ConcAddBlock(ps) ==
    /\ DOMAIN conc = {}
    /\ NextHash + 2 \in ConcHashes
    /\ SubmitNew(NextHash, <<ps>>)
    /\ UNCHANGED <<chainVars, storeVars, auxVars>>

\* two blocks are built over committed parents and add_block is called for
\* both; conc keeps the engine as it was at that moment
BeginBoth(psX, psY) ==
    /\ DOMAIN conc = {}
    /\ DOMAIN block_relations # {}
    /\ NextHash + 1 \in ConcHashes
    /\ header' = (NextHash :> <<psX>>) @@ (NextHash + 1 :> <<psY>>) @@ header
    /\ conc' = [start_relations |-> block_relations,
                start_scores |-> blue_scores,
                threads |-> ("X" :> StartLocals(NextHash, <<psX>>))
                            @@ ("Y" :> StartLocals(NextHash + 1, <<psY>>))]
    /\ UNCHANGED <<k, block_relations, blue_scores, last, adds,
                   virtual_state, claimed, pending, upd, tip, reorg, storeVars, auxVars>>

AtStatement(t, pc) == DOMAIN conc # {} /\ conc.threads[t].pc = pc

\* line 73
StepCalculateBlueSet(t) ==
    /\ AtStatement(t, "calculate_blue_set")
    /\ LET sets == calculate_blue_set(block_relations, k, conc.threads[t].all_parents)
       IN  conc' = [conc EXCEPT !.threads[t].blue_set = sets[1],
                                !.threads[t].red_set = sets[2],
                                !.threads[t].pc = "select_parent"]
    /\ UNCHANGED <<engineVars, virtual_state, claimed, pending, upd, tip, reorg, storeVars, auxVars>>

\* lines 76-93
StepSelectParent(t) ==
    /\ AtStatement(t, "select_parent")
    /\ LET selected_parent == select_parent(blue_scores, conc.threads[t].all_parents)
       IN  conc' = IF selected_parent = NoValidParent
                   THEN [conc EXCEPT !.threads[t].pc = "returned"]
                   ELSE [conc EXCEPT !.threads[t].selected_parent = selected_parent,
                                     !.threads[t].pc = "insert_relations"]
    /\ UNCHANGED <<engineVars, virtual_state, claimed, pending, upd, tip, reorg, storeVars, auxVars>>

\* line 95
StepInsertRelations(t) ==
    /\ AtStatement(t, "insert_relations")
    /\ LET th == conc.threads[t]
           relations == [parents |-> th.all_parents,
                         children |-> <<>>,
                         is_blue |-> Contains(th.blue_set, th.block),
                         blue_score |-> Len(th.blue_set),
                         selected_parent |-> th.selected_parent,
                         merge_set_blues |-> th.blue_set,
                         merge_set_reds |-> th.red_set]
       IN  block_relations' = (th.block :> relations) @@ block_relations
    /\ conc' = [conc EXCEPT !.threads[t].pc = "insert_blue_score"]
    /\ UNCHANGED <<k, blue_scores, header, last, adds,
                   virtual_state, claimed, pending, upd, tip, reorg, storeVars, auxVars>>

\* line 96
StepInsertBlueScore(t) ==
    /\ AtStatement(t, "insert_blue_score")
    /\ LET th == conc.threads[t]
       IN  /\ blue_scores' = (th.block :> Len(th.blue_set)) @@ blue_scores
           /\ conc' = [conc EXCEPT !.threads[t].pc =
                          IF th.all_parents = <<>> THEN "anticone_sizes"
                          ELSE "push_child"]
    /\ UNCHANGED <<k, block_relations, header, last, adds,
                   virtual_state, claimed, pending, upd, tip, reorg, storeVars, auxVars>>

\* lines 99-103, one turn of the loop
StepPushChild(t) ==
    /\ AtStatement(t, "push_child")
    /\ LET th == conc.threads[t]
           parent == th.all_parents[th.next_parent]
       IN  /\ block_relations' =
                  IF parent \in DOMAIN block_relations
                  THEN [block_relations EXCEPT ![parent].children = Append(@, th.block)]
                  ELSE block_relations
           /\ conc' = [conc EXCEPT !.threads[t].next_parent = @ + 1,
                                   !.threads[t].pc =
                                       IF th.next_parent = Len(th.all_parents)
                                       THEN "anticone_sizes" ELSE "push_child"]
    /\ UNCHANGED <<k, blue_scores, header, last, adds,
                   virtual_state, claimed, pending, upd, tip, reorg, storeVars, auxVars>>

\* lines 106-116
StepAnticoneSizes(t) ==
    /\ AtStatement(t, "anticone_sizes")
    /\ LET th == conc.threads[t]
           sizes == calculate_blues_anticone_sizes(block_relations, th.blue_set,
                                                   AnticoneVisited(th.all_parents))
       IN  conc' = [conc EXCEPT !.threads[t].pc = "returned",
                                !.threads[t].ok = TRUE,
                                !.threads[t].data =
                                    [blue_score |-> Len(th.blue_set),
                                     blue_work |-> calculate_blue_work_proper(th.blue_set),
                                     selected_parent |-> th.selected_parent,
                                     merge_set_blues |-> th.blue_set,
                                     merge_set_reds |-> th.red_set,
                                     blues_anticone_sizes |-> sizes]]
    /\ UNCHANGED <<engineVars, virtual_state, claimed, pending, upd, tip, reorg, storeVars, auxVars>>

NextConc ==
    \/ DOMAIN block_relations = {} /\ ConcAddBlock(<<>>)
    \/ DOMAIN block_relations # {}
          /\ \E ps \in ParentLists(DOMAIN block_relations, MaxParents) : ConcAddBlock(ps)
    \/ \E psX, psY \in ParentLists(DOMAIN block_relations, MaxParents) : BeginBoth(psX, psY)
    \/ \E t \in Threads : StepCalculateBlueSet(t)
    \/ \E t \in Threads : StepSelectParent(t)
    \/ \E t \in Threads : StepInsertRelations(t)
    \/ \E t \in Threads : StepInsertBlueScore(t)
    \/ \E t \in Threads : StepPushChild(t)
    \/ \E t \in Threads : StepAnticoneSizes(t)

SpecConc == Init /\ [][NextConc]_vars

\* ------------------------------------------------- Hash and MuHash (muhash.rs)
RECURSIVE Pow(_, _)
Pow(b, e) == IF e = 0 THEN 1 ELSE b * Pow(b, e - 1)

ByteSize == Pow(2, BitsPerByte)

HashLen == BytesPerWord * WordsPerHash

\* Hash::as_bytes: the bytes of a hash, the first one weighing most in the
\* comparison of two hashes
as_bytes(h) == [i \in 1..HashLen |-> (h \div Pow(ByteSize, HashLen - i)) % ByteSize]

\* the hash with the given bytes
RECURSIVE HashOfBytes(_)
HashOfBytes(bytes) ==
    IF bytes = <<>> THEN 0
    ELSE bytes[Len(bytes)] + ByteSize * HashOfBytes(SubSeq(bytes, 1, Len(bytes) - 1))

\* u64::from_le_bytes
RECURSIVE from_le_bytes(_)
from_le_bytes(chunk) ==
    IF chunk = <<>> THEN 0 ELSE Head(chunk) + ByteSize * from_le_bytes(Tail(chunk))

\* u64::to_le_bytes
to_le_bytes(val) == [j \in 1..BytesPerWord |-> (val \div Pow(ByteSize, j - 1)) % ByteSize]

\* Hash::as_le_u64
as_le_u64(h) ==
    [i \in 1..WordsPerHash |->
        from_le_bytes(SubSeq(as_bytes(h), (i - 1) * BytesPerWord + 1, i * BytesPerWord))]

\* Hash::from_le_u64
from_le_u64(data) ==
    HashOfBytes([n \in 1..HashLen |->
        to_le_bytes(data[((n - 1) \div BytesPerWord) + 1])[((n - 1) % BytesPerWord) + 1]])

\* a ^ b on words of the given number of bits
RECURSIVE Xor(_, _, _)
Xor(a, b, bits) ==
    IF bits = 0 THEN 0
    ELSE ((a + b) % 2) + 2 * Xor(a \div 2, b \div 2, bits - 1)

\* MuHash::add
MuHashAdd(state, element) ==
    from_le_u64([i \in 1..WordsPerHash |->
        Xor(as_le_u64(state)[i], as_le_u64(element)[i], BitsPerByte * BytesPerWord)])

\* MuHash::remove leaving the state as it is
MuHashRemoveNothing(state, element) == state

\* MuHash::remove
MuHashRemove(state, element) == MuHashAdd(state, element)

\* MuHash::finalize
MuHashFinalize(state) == state

\* the elements folded into the MuHash on its own
MuElements == {1, 6, 11}

MuAdd(x) ==
    /\ Len(mu.log) < MaxMuCalls
    /\ mu' = [mu EXCEPT !.state = MuHashAdd(mu.state, x),
                        !.log = Append(@, <<"add", x>>)]
    /\ UNCHANGED <<engineVars, chainVars, auxVars, utxos, muhash, ucall, applying, view, vcall, bcall>>

MuRemove(x) ==
    /\ Len(mu.log) < MaxMuCalls
    /\ mu' = [mu EXCEPT !.state = MuHashRemove(mu.state, x),
                        !.log = Append(@, <<"remove", x>>)]
    /\ UNCHANGED <<engineVars, chainVars, auxVars, utxos, muhash, ucall, applying, view, vcall, bcall>>

\* the state reached is taken as a new beginning
MuStartHere ==
    /\ mu.log # <<>>
    /\ mu' = [state |-> mu.state, start |-> mu.state, log |-> <<>>]
    /\ UNCHANGED <<engineVars, chainVars, auxVars, utxos, muhash, ucall, applying, view, vcall, bcall>>

NextMuHash ==
    \/ \E x \in MuElements : MuAdd(x)
    \/ \E x \in MuElements : MuRemove(x)
    \/ MuStartHere

SpecMuHash == StoreInit /\ [][NextMuHash]_vars

\* ------------------------------------ UtxoCollection (utxo/utxo_collection.rs)
\* the transaction hashes outpoints refer to
TxHashes == {ZeroHash, 6}

\* the outpoints of the model: index 0 of the all-zero hash, every index of
\* the others
OutPoints ==
    {o \in [tx_hash : TxHashes, index : 0..MaxIndex] :
        o.tx_hash # ZeroHash \/ o.index = 0}

\* the outputs of the model
Outputs == {[value |-> 50, script_pubkey |-> <<>>], [value |-> 100, script_pubkey |-> <<>>]}

Diffs ==
    [added : SeqsUpTo(OutPoints \X Outputs, MaxDiffAdded),
     removed : SeqsUpTo(OutPoints, MaxDiffRemoved)]

\* HashMap::remove of a key that is present
Without(map, o) ==
    IF DOMAIN map = {o} THEN <<>> ELSE [p \in DOMAIN map \ {o} |-> map[p]]

\* UtxoCollection::insert replacing the output of an outpoint already there
insert_overwriting(map, mh, outpoint, output) ==
    [utxos |-> (outpoint :> output) @@ map,
     muhash |-> MuHashAdd(mh, outpoint.tx_hash),
     ok |-> TRUE, err |-> ""]

\* UtxoCollection::insert on the map and MuHash state given
insert(map, mh, outpoint, output) ==
    IF outpoint \in DOMAIN map
    THEN [utxos |-> map, muhash |-> mh, ok |-> FALSE, err |-> "AlreadySpent"]
    ELSE [utxos |-> (outpoint :> output) @@ map,
          muhash |-> MuHashAdd(mh, outpoint.tx_hash),
          ok |-> TRUE, err |-> ""]

\* UtxoCollection::remove without the MuHash update
remove_keeping_muhash(map, mh, outpoint) ==
    IF outpoint \in DOMAIN map
    THEN [utxos |-> Without(map, outpoint), muhash |-> mh, value |-> <<map[outpoint]>>]
    ELSE [utxos |-> map, muhash |-> mh, value |-> <<>>]

\* UtxoCollection::remove; value is <<>> for None and <<x>> for Some(x)
remove(map, mh, outpoint) ==
    IF outpoint \in DOMAIN map
    THEN [utxos |-> Without(map, outpoint),
          muhash |-> MuHashRemove(mh, outpoint.tx_hash),
          value |-> <<map[outpoint]>>]
    ELSE [utxos |-> map, muhash |-> mh, value |-> <<>>]

\* the first loop of apply_diff: it returns at the first insert that fails
RECURSIVE InsertAll(_, _, _)
InsertAll(map, mh, added) ==
    IF added = <<>> THEN [utxos |-> map, muhash |-> mh, ok |-> TRUE, err |-> ""]
    ELSE LET r == insert(map, mh, Head(added)[1], Head(added)[2])
         IN  IF r.ok THEN InsertAll(r.utxos, r.muhash, Tail(added)) ELSE r

\* the second loop of apply_diff: remove returns Ok whether or not the
\* outpoint was there
RECURSIVE RemoveAll(_, _, _)
RemoveAll(map, mh, removed) ==
    IF removed = <<>> THEN [utxos |-> map, muhash |-> mh, ok |-> TRUE, err |-> ""]
    ELSE LET r == remove(map, mh, Head(removed))
         IN  RemoveAll(r.utxos, r.muhash, Tail(removed))

\* apply_diff with its loops in the other order
apply_diff_removed_first(map, mh, diff) ==
    LET removed == RemoveAll(map, mh, diff.removed)
    IN  InsertAll(removed.utxos, removed.muhash, diff.added)

\* UtxoCollection::apply_diff
apply_diff(map, mh, diff) ==
    LET added == InsertAll(map, mh, diff.added)
    IN  IF added.ok THEN RemoveAll(added.utxos, added.muhash, diff.removed) ELSE added

Insert(outpoint, output) ==
    /\ LET r == insert(utxos, muhash, outpoint, output)
       IN  /\ utxos' = r.utxos
           /\ muhash' = r.muhash
           /\ ucall' = [op |-> "insert", arg |-> <<outpoint, output>>, ok |-> r.ok,
                        err |-> r.err, value |-> <<>>,
                        before_utxos |-> utxos, before_muhash |-> muhash]
    /\ UNCHANGED <<engineVars, chainVars, auxVars, applying, view, vcall, mu, bcall>>

Remove(outpoint) ==
    /\ LET r == remove(utxos, muhash, outpoint)
       IN  /\ utxos' = r.utxos
           /\ muhash' = r.muhash
           /\ ucall' = [op |-> "remove", arg |-> <<outpoint>>, ok |-> TRUE,
                        err |-> "", value |-> r.value,
                        before_utxos |-> utxos, before_muhash |-> muhash]
    /\ UNCHANGED <<engineVars, chainVars, auxVars, applying, view, vcall, mu, bcall>>

\* apply_diff as one call; the calls of the model are such that one
\* apply_diff does not follow another directly
ApplyDiff(diff) ==
    /\ ucall.op # "apply_diff"
    /\ LET r == apply_diff(utxos, muhash, diff)
       IN  /\ utxos' = r.utxos
           /\ muhash' = r.muhash
           /\ ucall' = [op |-> "apply_diff", arg |-> diff, ok |-> r.ok,
                        err |-> r.err, value |-> <<>>,
                        before_utxos |-> utxos, before_muhash |-> muhash]
    /\ UNCHANGED <<engineVars, chainVars, auxVars, applying, view, vcall, mu, bcall>>

NextUtxo ==
    \/ \E outpoint \in OutPoints : \E output \in Outputs : Insert(outpoint, output)
    \/ \E outpoint \in OutPoints : Remove(outpoint)
    \/ \E diff \in Diffs : ApplyDiff(diff)

SpecUtxo == StoreInit /\ [][NextUtxo]_vars

\* --------------------------------------- apply_diff, one locked call at a time
\* apply_diff takes no lock of its own: every insert and remove it calls
\* takes the write lock and gives it back, and a reader can run in between.
\* The calls of the model are such that nothing else writes meanwhile.
BeginApplyDiff(diff) ==
    /\ ~applying.active
    /\ ucall.op # "apply_diff"
    /\ applying' = [active |-> TRUE, diff |-> diff, pre |-> utxos,
                    next_added |-> 1, next_removed |-> 1]
    /\ ucall' = [NoUtxoCall EXCEPT !.before_utxos = utxos, !.before_muhash = muhash]
    /\ UNCHANGED <<engineVars, chainVars, auxVars, utxos, muhash, view, vcall, mu, bcall>>

\* what the caller holds when apply_diff has returned
DiffCallRecord(ok, err) ==
    [op |-> "apply_diff", arg |-> applying.diff, ok |-> ok, err |-> err,
     value |-> <<>>, before_utxos |-> ucall.before_utxos,
     before_muhash |-> ucall.before_muhash]

\* line 90
StepDiffReturn ==
    /\ applying.active
    /\ applying.next_added > Len(applying.diff.added)
    /\ applying.next_removed > Len(applying.diff.removed)
    /\ applying' = NoDiffInProgress
    /\ ucall' = DiffCallRecord(TRUE, "")
    /\ UNCHANGED <<engineVars, chainVars, auxVars, utxos, muhash, view, vcall, mu, bcall>>

\* lines 84-86, one turn of the loop
StepDiffInsert ==
    /\ applying.active
    /\ applying.next_added <= Len(applying.diff.added)
    /\ LET pair == applying.diff.added[applying.next_added]
           r == insert(utxos, muhash, pair[1], pair[2])
       IN  /\ utxos' = r.utxos
           /\ muhash' = r.muhash
           /\ IF r.ok
              THEN /\ applying' = [applying EXCEPT !.next_added = @ + 1]
                   /\ UNCHANGED ucall
              ELSE /\ applying' = NoDiffInProgress
                   /\ ucall' = DiffCallRecord(FALSE, r.err)
    /\ UNCHANGED <<engineVars, chainVars, auxVars, view, vcall, mu, bcall>>

\* lines 87-89, one turn of the loop
StepDiffRemove ==
    /\ applying.active
    /\ applying.next_added > Len(applying.diff.added)
    /\ applying.next_removed <= Len(applying.diff.removed)
    /\ LET r == remove(utxos, muhash, applying.diff.removed[applying.next_removed])
       IN  /\ utxos' = r.utxos
           /\ muhash' = r.muhash
    /\ applying' = [applying EXCEPT !.next_removed = @ + 1]
    /\ UNCHANGED <<engineVars, chainVars, auxVars, ucall, view, vcall, mu, bcall>>

NextUtxoSteps ==
    \/ \E outpoint \in OutPoints : \E output \in Outputs :
          ~applying.active /\ Insert(outpoint, output)
    \/ \E outpoint \in OutPoints : ~applying.active /\ Remove(outpoint)
    \/ \E diff \in Diffs : BeginApplyDiff(diff)
    \/ StepDiffInsert
    \/ StepDiffRemove
    \/ StepDiffReturn

SpecUtxoSteps == StoreInit /\ [][NextUtxoSteps]_vars

\* ------------------------------------------------------------------ UtxoView
\* the inputs of the model; script_sig and sequence are not read by
\* validate_tx or is_coinbase
TxInputs == [prev_tx_hash : TxHashes, index : 0..MaxIndex]

InputLists == SeqsUpTo(TxInputs, MaxInputs)

\* Transaction::is_coinbase
is_coinbase(inputs) == Len(inputs) = 1 /\ inputs[1].prev_tx_hash = ZeroHash

OutPointOf(input) == [tx_hash |-> input.prev_tx_hash, index |-> input.index]

\* the loop of validate_tx from input i on, with the outpoints seen so far
RECURSIVE ValidateFrom(_, _, _, _)
ValidateFrom(map, inputs, i, seen) ==
    IF i > Len(inputs) THEN [ok |-> TRUE, err |-> "", outpoint |-> <<>>]
    ELSE LET outpoint == OutPointOf(inputs[i])
         IN  IF outpoint \notin DOMAIN map
             THEN [ok |-> FALSE, err |-> "NotFound", outpoint |-> <<outpoint>>]
             ELSE IF outpoint \in seen
             THEN [ok |-> FALSE, err |-> "AlreadySpent", outpoint |-> <<outpoint>>]
             ELSE ValidateFrom(map, inputs, i + 1, seen \cup {outpoint})

\* validate_tx without the set of outpoints seen
validate_tx_presence_only(map, inputs) ==
    IF \A i \in 1..Len(inputs) : OutPointOf(inputs[i]) \in DOMAIN map
    THEN [ok |-> TRUE, err |-> "", outpoint |-> <<>>]
    ELSE ValidateFrom(map, inputs, 1, {})

\* UtxoView::validate_tx
validate_tx(map, inputs) == ValidateFrom(map, inputs, 1, {})

\* UtxoView::apply_diff: HashMap::insert replaces, HashMap::remove of an
\* absent key does nothing
RECURSIVE ViewInsertAll(_, _)
ViewInsertAll(map, added) ==
    IF added = <<>> THEN map
    ELSE ViewInsertAll((Head(added)[1] :> Head(added)[2]) @@ map, Tail(added))

RECURSIVE ViewRemoveAll(_, _)
ViewRemoveAll(map, removed) ==
    IF removed = <<>> THEN map
    ELSE ViewRemoveAll(IF Head(removed) \in DOMAIN map
                       THEN Without(map, Head(removed)) ELSE map,
                       Tail(removed))

\* UtxoView::apply_diff without its second loop
view_apply_diff_added_only(map, diff) == ViewInsertAll(map, diff.added)

view_apply_diff(map, diff) == ViewRemoveAll(ViewInsertAll(map, diff.added), diff.removed)

\* The view is a snapshot: it is built first, then transactions are
\* validated against it.
NewFromCollection ==
    /\ ~vcall.called
    /\ view' = utxos
    /\ UNCHANGED <<engineVars, chainVars, auxVars, utxos, muhash, ucall, applying, vcall, mu, bcall>>

ViewApplyDiff(diff) ==
    /\ ~vcall.called
    /\ view' = view_apply_diff(view, diff)
    /\ UNCHANGED <<engineVars, chainVars, auxVars, utxos, muhash, ucall, applying, vcall, mu, bcall>>

ValidateTx(inputs) ==
    /\ LET r == validate_tx(view, inputs)
       IN  vcall' = [called |-> TRUE, inputs |-> inputs, before |-> view,
                     ok |-> r.ok, err |-> r.err, outpoint |-> r.outpoint]
    /\ UNCHANGED <<engineVars, chainVars, auxVars, utxos, muhash, ucall, applying, view, mu, bcall>>

NextView ==
    \/ NewFromCollection
    \/ \E diff \in Diffs : ViewApplyDiff(diff)
    \/ \E inputs \in InputLists : ValidateTx(inputs)

SpecView == StoreInit /\ [][NextView]_vars

\* --------------------------------------------------------------------- Block
\* SHA-256 is not computed: a digest is the term of what was hashed, so two
\* digests are equal when their inputs are, and no digest equals a hash
\* given by its value.  SHA-256 of the empty input is e3b0c442..., not the
\* all-zero hash.  A hash given by its value n is the term <<n>>; all that
\* is hashed here is the bytes of hashes, one after the other.
RawHash(n) == <<n>>

\* the first number that is not a hash value marks a digest
Sha256Tag == Pow(ByteSize, HashLen)

\* hashing::hash_data of the bytes of the hashes given
hash_data(hashes) == <<Sha256Tag, Len(hashes)>> \o Flatten(hashes)

\* hashing::hash_merkle_root
hash_merkle_root(hashes) == hash_data(hashes)

\* hashing::double_sha256 of the bytes of the hashes given
double_sha256(hashes) == hash_data(<<hash_data(hashes)>>)

\* MerkleTree::build_tree, the hash of the node it returns; start and end
\* count from 1 here
RECURSIVE build_tree(_, _, _)
build_tree(tx_hashes, start, end) ==
    IF start = end THEN tx_hashes[start]
    ELSE LET mid == start + (end - start) \div 2
         IN  double_sha256(<<build_tree(tx_hashes, start, mid),
                             build_tree(tx_hashes, mid + 1, end)>>)

\* merkle::calculate_merkle_root
calculate_merkle_root(tx_hashes) ==
    IF tx_hashes = <<>> THEN RawHash(ZeroHash)
    ELSE build_tree(tx_hashes, 1, Len(tx_hashes))

\* the transaction hashes of the model
BlockTxHashes == {RawHash(h) : h \in TxHashes}

TxLists == SeqsUpTo(BlockTxHashes, MaxTxs)

\* the merkle roots a header of the model may carry
MerkleRoots ==
    BlockTxHashes
        \cup {hash_merkle_root(t) : t \in TxLists}
        \cup {calculate_merkle_root(t) : t \in TxLists}

\* Block::validate of Block::new(header, transactions)
block_validate(merkle_root, transactions) ==
    LET computed == hash_merkle_root(transactions)
    IN  IF merkle_root # computed
        THEN [ok |-> FALSE, err |-> "MerkleRootMismatch"]
        ELSE [ok |-> TRUE, err |-> ""]

ValidateBlock(merkle_root, transactions) ==
    /\ LET r == block_validate(merkle_root, transactions)
       IN  bcall' = [called |-> TRUE, merkle_root |-> merkle_root,
                     transactions |-> transactions, ok |-> r.ok, err |-> r.err]
    /\ UNCHANGED <<engineVars, chainVars, auxVars, utxos, muhash, ucall, applying, view, vcall, mu>>

NextBlock ==
    \E merkle_root \in MerkleRoots : \E transactions \in TxLists :
        ValidateBlock(merkle_root, transactions)

SpecBlock == StoreInit /\ [][NextBlock]_vars

\* ------------------------------------------------------------ proof of work
\* A u32 is its four bytes, most significant first; a target and the bytes
\* of a hash are 32 bytes, most significant first.  Every shift of
\* target_from_bits is by whole bytes.
exponent(bits) == bits[1]

\* bits & 0x00ffffff
mantissa(bits) == [i \in 1..U32Len |-> IF i = 1 THEN 0 ELSE bits[i]]

\* value << (8 * n) on a u32: the bytes pushed out at the top are lost
ShlBytes(value, n) == [i \in 1..U32Len |-> IF i + n <= U32Len THEN value[i + n] ELSE 0]

\* target[from..to].copy_from_slice(src), from and to counted from 0 as in
\* the source
CopyFromSlice(target, from, to, src) ==
    [i \in 1..TargetLen |-> IF from < i /\ i <= to THEN src[i - from] ELSE target[i]]

\* hashing::target_from_bits
target_from_bits(bits) ==
    IF exponent(bits) <= 3
    THEN LET shift == 3 - exponent(bits)
         IN  CopyFromSlice(ZeroTarget, TargetLen - shift, TargetLen,
                           SubSeq(ShlBytes(mantissa(bits), shift), 1, shift))
    ELSE LET shift == exponent(bits) - 3
         IN  IF shift < MaxTargetShift
             THEN CopyFromSlice(ZeroTarget, TargetLen - U32Len - shift,
                                TargetLen - shift, mantissa(bits))
             ELSE ZeroTarget

\* the order of byte slices: at the first byte that differs
SliceLess(a, b) ==
    \E i \in 1..Len(a) : a[i] < b[i] /\ \A j \in 1..(i - 1) : a[j] = b[j]

\* hashing::meets_target
meets_target(hash, target) == SliceLess(hash, target)

\* mining_rules::check_proof_of_work; block.hash() is the SHA-256 of the
\* header, 32 bytes the model is given
check_proof_of_work(block) ==
    LET hash == block.hash
        target == target_from_bits(block.bits)
    IN  IF is_genesis(block.parents_by_level) /\ block.bits # [i \in 1..U32Len |-> 0]
        THEN TRUE
        ELSE meets_target(hash, target)

\* mining_rules::validate_ghostdag_data
validate_ghostdag_data(block) ==
    IF is_genesis(block.parents_by_level) THEN [ok |-> TRUE, err |-> ""]
    ELSE IF block.ghostdag_data = <<>>
    THEN [ok |-> FALSE, err |-> "MissingGhostDagData"]
    ELSE IF ~Contains(Flatten(block.parents_by_level), block.ghostdag_data[1].selected_parent)
    THEN [ok |-> FALSE, err |-> "InvalidSelectedParent"]
    ELSE [ok |-> TRUE, err |-> ""]

\* mining_rules::validate_mining_rules
validate_mining_rules(block) ==
    IF ~check_proof_of_work(block)
    THEN [ok |-> FALSE, err |-> "MiningRuleViolation"]
    ELSE validate_ghostdag_data(block)

\* the bits of the model
Exponents == {0, 1, 2, 3, 4, 31, 32}

Mantissas == {<<18, 52, 86>>, <<255, 255, 255>>}

BitsValues == {[i \in 1..U32Len |-> 0]} \cup {<<e>> \o m : e \in Exponents, m \in Mantissas}

\* the 32-byte number one above and one below, where there is one
Succ32(bytes) ==
    IF \A i \in 1..TargetLen : bytes[i] = 255 THEN bytes
    ELSE LET at == CHOOSE i \in 1..TargetLen :
                       bytes[i] < 255 /\ \A j \in (i + 1)..TargetLen : bytes[j] = 255
         IN  [i \in 1..TargetLen |->
                 IF i < at THEN bytes[i] ELSE IF i = at THEN bytes[i] + 1 ELSE 0]

Pred32(bytes) ==
    IF bytes = ZeroTarget THEN bytes
    ELSE LET at == CHOOSE i \in 1..TargetLen :
                       bytes[i] > 0 /\ \A j \in (i + 1)..TargetLen : bytes[j] = 0
         IN  [i \in 1..TargetLen |->
                 IF i < at THEN bytes[i] ELSE IF i = at THEN bytes[i] - 1 ELSE 255]

\* the header hashes of the model for a block of these bits: at its target
\* and next to it, the least and the greatest
HeaderHashes(bits) ==
    LET target == target_from_bits(bits)
    IN  {target, Succ32(target), Pred32(target), ZeroTarget,
         [i \in 1..TargetLen |-> 255]}

PowParents == {<<<<>>>>, <<<<1>>>>}

PowGhostDagData == {<<>>, <<[selected_parent |-> 1]>>, <<[selected_parent |-> 3]>>}

TargetFromBits(bits) ==
    /\ pow' = [NoPowCall EXCEPT !.op = "target_from_bits", !.bits = bits,
                                !.target = target_from_bits(bits)]
    /\ UNCHANGED <<engineVars, chainVars, storeVars, twin, vconc>>

ValidateMiningRules(block) ==
    /\ LET r == validate_mining_rules(block)
       IN  pow' = [NoPowCall EXCEPT !.op = "validate_mining_rules", !.block = block,
                                    !.pow_ok = check_proof_of_work(block),
                                    !.ok = r.ok, !.err = r.err]
    /\ UNCHANGED <<engineVars, chainVars, storeVars, twin, vconc>>

NextPow ==
    \/ \E bits \in BitsValues : TargetFromBits(bits)
    \/ \E bits \in BitsValues : \E hash \in HeaderHashes(bits) :
       \E parents \in PowParents : \E data \in PowGhostDagData :
          ValidateMiningRules([parents_by_level |-> parents, bits |-> bits,
                               hash |-> hash, ghostdag_data |-> data])

SpecPow == StoreInit /\ [][NextPow]_vars

\* add_block run alone on the engine (rels, scores): the engine afterwards
\* and the GhostDagData returned
SequentialAddBlock(rels, scores, h, all_parents) ==
    LET sets == calculate_blue_set(rels, k, all_parents)
        relations == [parents |-> all_parents,
                      children |-> <<>>,
                      is_blue |-> Contains(sets[1], h),
                      blue_score |-> Len(sets[1]),
                      selected_parent |-> select_parent(scores, all_parents),
                      merge_set_blues |-> sets[1],
                      merge_set_reds |-> sets[2]]
        committed == PushChildren((h :> relations) @@ rels, all_parents, h)
    IN  [relations |-> committed,
         scores |-> (h :> Len(sets[1])) @@ scores,
         data |-> [blue_score |-> Len(sets[1]),
                   blue_work |-> calculate_blue_work_proper(sets[1]),
                   selected_parent |-> relations.selected_parent,
                   merge_set_blues |-> sets[1],
                   merge_set_reds |-> sets[2],
                   blues_anticone_sizes |->
                       calculate_blues_anticone_sizes(committed, sets[1],
                                                      AnticoneVisited(all_parents))]]

\* ------------------------------------------------- one DAG, two engines
\* The engine of the model is given the blocks in the order they are built.
\* A second engine is given the same blocks, each after all of its parents,
\* in any order.
OrderGenesis ==
    /\ DOMAIN block_relations = {}
    /\ SubmitNew(NextHash, << <<>> >>)
    /\ UNCHANGED <<chainVars, storeVars, pow, twin, vconc>>

OrderAddBlock(ps) ==
    /\ DOMAIN block_relations # {}
    /\ NextHash \in DagHashes
    /\ SubmitNew(NextHash, <<ps>>)
    /\ UNCHANGED <<chainVars, storeVars, pow, twin, vconc>>

TwinAddBlock(h) ==
    /\ h \in DOMAIN header
    /\ h \notin DOMAIN twin.relations
    /\ Range(Flatten(header[h])) \subseteq DOMAIN twin.relations
    /\ LET r == SequentialAddBlock(twin.relations, twin.scores, h, Flatten(header[h]))
       IN  twin' = [relations |-> r.relations, scores |-> r.scores]
    /\ UNCHANGED <<engineVars, chainVars, storeVars, pow, vconc>>

NextOrder ==
    \/ OrderGenesis
    \/ \E ps \in ParentLists(DOMAIN block_relations, MaxParents) : OrderAddBlock(ps)
    \/ \E h \in DagHashes : TwinAddBlock(h)

SpecOrder == Init /\ [][NextOrder]_vars

\* ------------------------------- update_virtual_state, statement by statement
\* Two update_virtual_state calls run on two threads.  The call reads
\* blue_score under the read lock and gives the lock back; the comparison
\* and the rewrite under the write lock come after.
ConcFields ==
    [blue_score : 0..MaxConcScore, blue_work : {0}, daa_score : 0..MaxClaimedDaa]

\* a block is built; only its header fields matter to update_virtual_state
VcBuildBlock(fields) ==
    /\ DOMAIN vconc = {}
    /\ Cardinality(DOMAIN claimed) < MaxConcBlocks
    /\ claimed' = (Cardinality(DOMAIN claimed) + 1 :> fields) @@ claimed
    /\ UNCHANGED <<engineVars, virtual_state, pending, upd, tip, reorg, conc,
                   storeVars, auxVars>>

\* update_virtual_state run alone, before the two threads start
VcUpdateAlone(h) ==
    /\ DOMAIN vconc = {}
    /\ h \in DOMAIN claimed
    /\ update_virtual_state(h, FALSE)
    /\ UNCHANGED <<engineVars, claimed, pending, tip, reorg, conc, storeVars, auxVars>>

\* the two calls start; vconc keeps VirtualState as it was at that moment
VcBeginBoth(hX, hY) ==
    /\ DOMAIN vconc = {}
    /\ {hX, hY} \subseteq DOMAIN claimed
    /\ vconc' = [initial |-> virtual_state,
                 threads |-> [t \in Threads |->
                     [pc |-> "read", block |-> IF t = "X" THEN hX ELSE hY,
                      current_blue_score |-> 0]]]
    /\ UNCHANGED <<engineVars, chainVars, storeVars, pow, twin>>

VcAtStatement(t, pc) == DOMAIN vconc # {} /\ vconc.threads[t].pc = pc

\* lines 83-86
VcStepRead(t) ==
    /\ VcAtStatement(t, "read")
    /\ vconc' = [vconc EXCEPT !.threads[t].pc = "compare",
                              !.threads[t].current_blue_score = virtual_state.blue_score]
    /\ UNCHANGED <<engineVars, chainVars, storeVars, pow, twin>>

\* lines 88-101
VcStepCompareAndWrite(t) ==
    /\ VcAtStatement(t, "compare")
    /\ LET h == vconc.threads[t].block
       IN  virtual_state' =
               IF HigherBlueScore(claimed[h].blue_score, vconc.threads[t].current_blue_score)
               THEN RewrittenState(h, FALSE, <<>>)
               ELSE virtual_state
    /\ vconc' = [vconc EXCEPT !.threads[t].pc = "returned"]
    /\ UNCHANGED <<engineVars, claimed, pending, upd, tip, reorg, conc,
                   storeVars, pow, twin>>

NextVConc ==
    \/ \E fields \in ConcFields : VcBuildBlock(fields)
    \/ \E h \in 1..MaxConcBlocks : VcUpdateAlone(h)
    \/ \E hX \in 1..MaxConcBlocks : \E hY \in 1..MaxConcBlocks : VcBeginBoth(hX, hY)
    \/ \E t \in Threads : VcStepRead(t)
    \/ \E t \in Threads : VcStepCompareAndWrite(t)

SpecVConc == StoreInit /\ [][NextVConc]_vars

\* ------------------------------------------- a snapshot and its collection
\* A collection is filled, a view is taken of it, a diff is applied to the
\* collection and then the same diff to the view.
NextSnapshot ==
    \/ \E outpoint \in OutPoints : \E output \in Outputs : Insert(outpoint, output)
    \/ NewFromCollection
    \/ \E diff \in Diffs : view = utxos /\ ApplyDiff(diff)
    \/ ucall.op = "apply_diff" /\ ViewApplyDiff(ucall.arg)

SpecSnapshot == StoreInit /\ [][NextSnapshot]_vars

\* ------------------------------------------------------------ properties
\* the latest call was add_block of a block submitted for the first time,
\* after all the parents it lists
WellFormedCall == last.ok /\ last.fresh /\ last.parents_known

AllParents == Flatten(last.parents_by_level)

Level0 == IF last.parents_by_level = <<>> THEN <<>> ELSE last.parents_by_level[1]

Blues == last.data.merge_set_blues

Reds == last.data.merge_set_reds

\* C1: every non-genesis block's selected_parent is one of the hashes of
\* parents_by_level[0] (stated for blocks that list at least one level-0
\* parent and are added after their parents).
C1_SelectedParentInLevel0 ==
    (WellFormedCall /\ ~last.is_genesis /\ Level0 # <<>>)
        => last.data.selected_parent \in Range(Level0)

\* C2: a non-genesis block's blue_score is the stored blue_score of its
\* selected parent plus the number of its merge_set_blues plus one.
C2_BlueScoreRecurrence ==
    (WellFormedCall /\ ~last.is_genesis)
        => last.data.blue_score
             = ScoreKey(blue_scores, last.data.selected_parent) + Len(Blues) + 1

\* C3: every hash of merge_set_blues has an entry in blues_anticone_sizes,
\* and the entry is at most k.
C3_BluesAnticoneAtMostK ==
    last.ok => \A b \in Range(Blues) :
                  /\ b \in DOMAIN last.data.blues_anticone_sizes
                  /\ last.data.blues_anticone_sizes[b] <= k

\* C3 witness: a blue block that is not a listed parent and whose recorded
\* size counts a block outside the new block's parents.
C3_Witness ==
    /\ last.ok
    /\ \E b \in Range(Blues) :
          /\ b \notin Range(AllParents)
          /\ last.data.blues_anticone_sizes[b] > 0

\* the merge set of the latest block as the DAG defines it: the block's
\* ancestors that are neither its selected parent nor in that parent's past
MergeSetOf(h, selected_parent) ==
    Ancestors(header, h) \ ({selected_parent} \cup Ancestors(header, selected_parent))

\* C4: merge_set_blues and merge_set_reds together are exactly the ancestors
\* of the block that are not in the past of its selected parent.
C4_MergeSetIsNewPast ==
    WellFormedCall
        => Range(Blues) \cup Range(Reds)
             = MergeSetOf(last.block, last.data.selected_parent)

\* C5: no hash is both blue and red, and no hash occurs twice in either list.
C5_MergeSetsDisjoint ==
    last.ok => /\ Range(Blues) \cap Range(Reds) = {}
               /\ NoDuplicates(Blues)
               /\ NoDuplicates(Reds)

\* C5 witness: a block added after its parents lists one parent twice, and
\* another block is reached both as a listed parent and through a parent.
C5_Witness ==
    /\ WellFormedCall
    /\ ~NoDuplicates(AllParents)
    /\ \E p, q \in Range(AllParents) :
          p # q /\ q \in Range(ParentsOf(block_relations, p))

\* the latest block lists exactly the hashes of S at level 0, each once, and
\* every one of them is a block whose only parent is one genesis block g
MergeOverParallel(S, g) ==
    /\ WellFormedCall
    /\ Len(last.parents_by_level) = 1
    /\ Range(Level0) = S
    /\ Len(Level0) = Cardinality(S)
    /\ IsGenesisBlock(g)
    /\ \A p \in S : header[p] = << <<g>> >>

\* C6: with k = 3, the block merging two parallel children A, B of genesis
\* has both in merge_set_blues, no reds, and blue_score 2.
C6_DiamondK3 ==
    \A g, a, b \in DOMAIN header :
        (k = 3 /\ a # b /\ MergeOverParallel({a, b}, g))
            => /\ Contains(Blues, a)
               /\ Contains(Blues, b)
               /\ Reds = <<>>
               /\ last.data.blue_score = 2

\* C7: with k = 1, the block merging three parallel children of genesis has
\* at least one of them red, and blue_score is the number of blues plus one.
C7_ThreeParallelK1 ==
    \A g, p1, p2, p3 \in DOMAIN header :
        (k = 1 /\ Cardinality({p1, p2, p3}) = 3 /\ MergeOverParallel({p1, p2, p3}, g))
            => /\ \E p \in {p1, p2, p3} : Contains(Reds, p)
               /\ last.data.blue_score = Len(Blues) + 1

\* C8: with k = 0 the blocks of merge_set_blues lie on one chain: of any two,
\* one is an ancestor of the other.
C8_BluesChainK0 ==
    (k = 0 /\ WellFormedCall)
        => \A a, b \in Range(Blues) :
               \/ a = b
               \/ a \in Ancestors(header, b)
               \/ b \in Ancestors(header, a)

\* the blue_work add_block returned for a known block
BlueWorkOf(p) == calculate_blue_work_proper(block_relations[p].merge_set_blues)

\* p is preferred to q: more blue_score, then more blue_work, then smaller hash
Preferred(p, q) ==
    \/ blue_scores[p] > blue_scores[q]
    \/ /\ blue_scores[p] = blue_scores[q]
       /\ \/ BlueWorkOf(p) > BlueWorkOf(q)
          \/ BlueWorkOf(p) = BlueWorkOf(q) /\ p < q

\* C9: the selected parent is the level-0 parent with the greatest
\* blue_score, then the greater blue_work, then the smaller hash, whatever
\* the order of the list.
C9_SelectedParentRule ==
    (WellFormedCall /\ Level0 # <<>>)
        => /\ last.data.selected_parent \in Range(Level0)
           /\ \A q \in Range(Level0) \ {last.data.selected_parent} :
                  Preferred(last.data.selected_parent, q)

\* C10: add_block of a block without parents at any level succeeds and
\* returns blue_score 0, the all-zero selected_parent and empty merge sets,
\* and the block is a genesis block.
C10_GenesisResult ==
    (last.block # ZeroHash /\ AllParents = <<>>)
        => /\ last.ok
           /\ last.data.blue_score = 0
           /\ last.data.selected_parent = ZeroHash
           /\ Blues = <<>>
           /\ Reds = <<>>
           /\ last.is_genesis

\* C10 witness: a block with two empty parent levels added to an engine that
\* already holds other blocks.
C10_Witness ==
    /\ last.ok
    /\ last.parents_by_level = << <<>>, <<>> >>
    /\ DOMAIN block_relations \ {last.block} # {}

\* the known blocks without children
Childless == {h \in DOMAIN block_relations : block_relations[h].children = <<>>}

\* C16: select_tip fails with NoTips exactly when no known block is
\* childless; otherwise it returns a known, childless block whose stored
\* blue_score is not below that of any other childless block.
C16_SelectTipIsBestTip ==
    tip.called
        => /\ ~tip.ok <=> Childless = {}
           /\ tip.ok => /\ tip.value \in Childless
                        /\ \A q \in Childless : blue_scores[tip.value] >= blue_scores[q]

\* C16 witness: select_tip succeeds where a block with a child exists and
\* two childless blocks have different blue_scores.
C16_Witness ==
    /\ tip.called /\ tip.ok
    /\ DOMAIN block_relations \ Childless # {}
    /\ \E q \in Childless : blue_scores[q] < blue_scores[tip.value]

\* one genesis block, and every listed parent is known
OneGenesisAllKnown ==
    /\ Cardinality({h \in DOMAIN block_relations : block_relations[h].parents = <<>>}) = 1
    /\ \A h \in DOMAIN block_relations :
          Range(block_relations[h].parents) \subseteq DOMAIN block_relations

\* C17: among the tips with the maximum blue_score select_tip returns the
\* one with the larger blue_work, and with equal blue_work the smaller hash.
C17_SelectTipTieBreak ==
    (tip.called /\ tip.ok /\ OneGenesisAllKnown)
        => \A q \in Childless \ {tip.value} :
               blue_scores[q] = blue_scores[tip.value]
                   => \/ BlueWorkOf(tip.value) > BlueWorkOf(q)
                      \/ BlueWorkOf(tip.value) = BlueWorkOf(q) /\ tip.value < q

\* C18: update_virtual_state rewrites VirtualState from the new block if and
\* only if the header blue_score is strictly greater than the current one,
\* or equal with greater blue_work, or equal in both with a hash smaller than
\* the current selected_tip; otherwise VirtualState is left as it was.
C18_UpdateRule ==
    (upd.called /\ upd.before.selected_tip \in DOMAIN claimed)
        => LET new == claimed[upd.block]
               cur == claimed[upd.before.selected_tip]
               better ==
                   \/ new.blue_score > upd.before.blue_score
                   \/ /\ new.blue_score = upd.before.blue_score
                      /\ new.blue_work > cur.blue_work
                   \/ /\ new.blue_score = upd.before.blue_score
                      /\ new.blue_work = cur.blue_work
                      /\ upd.block < upd.before.selected_tip
           IN  IF better
               THEN virtual_state =
                        RewrittenState(upd.block, upd.some_data, upd.merge_set_blues)
               ELSE virtual_state = upd.before

\* C15: between a successful add_block(B) and the end of the corresponding
\* update_virtual_state(B), the selected_tip of VirtualState is a block with
\* an empty children list in the relations mapping.
C15_SelectedTipIsTipWhilePending ==
    (pending # ZeroHash /\ virtual_state.selected_tip # ZeroHash)
        => /\ virtual_state.selected_tip \in DOMAIN block_relations
           /\ block_relations[virtual_state.selected_tip].children = <<>>

\* the selected-parent chain of h: h, its selected parent, and so on, ending
\* with the first hash that has no relations record
RECURSIVE ChainOf(_)
ChainOf(h) ==
    IF h \in DOMAIN block_relations
    THEN <<h>> \o ChainOf(block_relations[h].selected_parent)
    ELSE <<h>>

\* the position of the first element of chain that is also on other; one
\* past the end when there is none
MeetIndex(chain, other) ==
    LET common == {i \in 1..Len(chain) : Contains(other, chain[i])}
    IN  IF common = {} THEN Len(chain) + 1
        ELSE CHOOSE i \in common : \A j \in common : i <= j

\* C40: on every engine state reached through add_block calls the loops
\* end: a selected-parent walk leaves the known blocks after at most as many
\* turns as there are known blocks, so is_in_past_cone returns and the paths
\* of calculate_reorg_path hold no block twice; the walk of add_block's
\* calculate_blue_set puts no block twice in the blue and red sets, and no
\* anticone size exceeds the number of known blocks.
C40_LoopsEnd ==
    LET known == DOMAIN block_relations
        turns == Cardinality(known)
    IN  /\ \A candidate \in Hashes : \A reference \in Hashes \cup {ZeroHash} :
               LET r == is_in_past_cone(block_relations, candidate, reference, turns)
               IN  /\ r.done
                   /\ r.value <=> Contains(ChainOf(candidate), reference)
        /\ \A old_tip \in Hashes : \A new_tip \in Hashes :
               LET path == calculate_reorg_path(block_relations, old_tip, new_tip)
               IN  /\ Len(path.added) <= turns + 1 /\ NoDuplicates(path.added)
                   /\ Len(path.removed) <= turns + 1 /\ NoDuplicates(path.removed)
        /\ (adds > 0 /\ last.ok) =>
               /\ NoDuplicates(Blues \o Reds)
               /\ \A b \in DOMAIN last.data.blues_anticone_sizes :
                      last.data.blues_anticone_sizes[b] <= Cardinality(known)

\* three blocks on one selected-parent chain, the last add_block having
\* walked over two of them, and a walk that takes three turns to say no
C40_Witness ==
    /\ adds > 0 /\ last.ok
    /\ Len(Blues \o Reds) = 2
    /\ \E h \in DOMAIN block_relations :
           /\ Len(ChainOf(h)) = 4
           /\ LET r == is_in_past_cone(block_relations, h, NoValidParent, 3)
              IN  r.done /\ ~r.value
           /\ ~is_in_past_cone(block_relations, h, NoValidParent, 2).done

\* C37: whenever find_common_ancestor(b1, b2) returns Ok(c), c is a block
\* of the relations mapping on the selected-parent chains of b1 and b2, and
\* never the all-zero hash kept as the selected parent of genesis blocks.
C37_CommonAncestorIsBlock ==
    reorg.called =>
        LET common == find_common_ancestor(block_relations, reorg.old_tip, reorg.new_tip)
        IN  common[1] =>
                /\ common[2] # ZeroHash
                /\ common[2] \in DOMAIN block_relations
                /\ common[2] \in Range(ChainOf(reorg.old_tip))
                /\ common[2] \in Range(ChainOf(reorg.new_tip))

C20_NoCommonAncestorOnlyIfDisjoint ==
    reorg.called
        => (~reorg.ok =>
               Range(ChainOf(reorg.old_tip)) \cap Range(ChainOf(reorg.new_tip)) = {})

\* C20 witness: handle_reorg fails, one of the tips being a known block.
C20_Witness ==
    /\ reorg.called /\ ~reorg.ok
    /\ reorg.new_tip \in DOMAIN block_relations

\* no trace of h in the engine
AbsentEverywhere(h) ==
    /\ h \notin DOMAIN block_relations
    /\ h \notin DOMAIN blue_scores
    /\ \A p \in DOMAIN block_relations : ~Contains(block_relations[p].children, h)

\* h is committed: in both maps and in the children list of each known parent
PresentEverywhere(h) ==
    /\ h \in DOMAIN block_relations
    /\ h \in DOMAIN blue_scores
    /\ \A p \in Range(block_relations[h].parents) \cap DOMAIN block_relations :
          Contains(block_relations[p].children, h)

\* C12: in every state a concurrent reader can see, a block is either
\* absent from block_relations, blue_scores and every children list, or
\* present in both maps and in the children list of every known parent.
C12_AddBlockAllOrNothing ==
    \A h \in DOMAIN header : AbsentEverywhere(h) \/ PresentEverywhere(h)

\* the outcome of the two calls run one after the other, first then second
SequentialOutcome(first, second) ==
    LET a == SequentialAddBlock(conc.start_relations, conc.start_scores,
                                conc.threads[first].block,
                                conc.threads[first].all_parents)
        b == SequentialAddBlock(a.relations, a.scores,
                                conc.threads[second].block,
                                conc.threads[second].all_parents)
    IN  [relations |-> b.relations, scores |-> b.scores,
         data |-> (first :> a.data) @@ (second :> b.data)]

\* C13: two concurrent add_block calls for blocks over committed parents,
\* neither an ancestor of the other, end in the engine state and with the
\* results of one of the two sequential executions.
C13_ConcurrentAddsSerializable ==
    (DOMAIN conc # {} /\ \A t \in Threads : conc.threads[t].pc = "returned")
        => [relations |-> block_relations, scores |-> blue_scores,
            data |-> [t \in Threads |-> conc.threads[t].data]]
             \in {SequentialOutcome("X", "Y"), SequentialOutcome("Y", "X")}

\* how many calls of the log are op(x)
CountCalls(log, op, x) == Cardinality({i \in 1..Len(log) : log[i] = <<op, x>>})

\* every element was added as often as it was removed
Balanced(log) ==
    \A x \in MuElements : CountCalls(log, "add", x) = CountCalls(log, "remove", x)

\* C27: a sequence of MuHash add and remove calls in which every element is
\* added as often as it is removed ends, whatever the order of the calls,
\* with the finalize() value it started from; add(x) then remove(x) is the
\* shortest such sequence.
C27_MuHashBalanced ==
    Balanced(mu.log) => MuHashFinalize(mu.state) = MuHashFinalize(mu.start)

\* C27 witness: from a state other than the new one, two different elements
\* are added and then removed in the order they were added.
C27_Witness ==
    /\ mu.start # MuHashNew
    /\ Len(mu.log) = 4
    /\ \E x, y \in MuElements :
          /\ x # y
          /\ mu.log = << <<"add", x>>, <<"add", y>>, <<"remove", x>>, <<"remove", y>> >>

\* the outpoints of the pairs of a diff's added list
AddedOutPoints(diff) == {diff.added[i][1] : i \in 1..Len(diff.added)}

UnchangedByCall == utxos = ucall.before_utxos /\ muhash = ucall.before_muhash

\* C21: insert of an outpoint that is already present returns AlreadySpent
\* and leaves the map, the outpoint's output and the MuHash as they were; the
\* same holds of apply_diff when the first pair it adds is already present.
C21_InsertPresentRejected ==
    /\ (ucall.op = "insert" /\ ucall.arg[1] \in DOMAIN ucall.before_utxos)
          => ~ucall.ok /\ ucall.err = "AlreadySpent" /\ UnchangedByCall
    /\ (/\ ucall.op = "apply_diff"
        /\ ucall.arg.added # <<>>
        /\ ucall.arg.added[1][1] \in DOMAIN ucall.before_utxos)
          => ~ucall.ok /\ ucall.err = "AlreadySpent" /\ UnchangedByCall

\* C21 witness: insert of a present outpoint with an output other than the
\* one it has.
C21_Witness ==
    /\ ucall.op = "insert"
    /\ ucall.arg[1] \in DOMAIN ucall.before_utxos
    /\ ucall.before_utxos[ucall.arg[1]] # ucall.arg[2]
    /\ ucall.arg[1].tx_hash # ZeroHash

\* C22: remove of a present outpoint returns its output and deletes it,
\* remove of an absent one returns None and changes nothing; a successful
\* insert followed by remove of the same outpoint restores map and MuHash.
C22_RemoveAndRestore ==
    /\ [](ucall.op = "remove" =>
            /\ ucall.ok
            /\ IF ucall.arg[1] \in DOMAIN ucall.before_utxos
               THEN /\ ucall.value = <<ucall.before_utxos[ucall.arg[1]]>>
                    /\ DOMAIN utxos = DOMAIN ucall.before_utxos \ {ucall.arg[1]}
                    /\ \A o \in DOMAIN utxos : utxos[o] = ucall.before_utxos[o]
               ELSE ucall.value = <<>> /\ UnchangedByCall)
    /\ [][(/\ ucall.op = "insert" /\ ucall.ok
           /\ ucall'.op = "remove" /\ ucall'.arg[1] = ucall.arg[1])
             => /\ utxos' = ucall.before_utxos
                /\ muhash' = ucall.before_muhash]_vars

\* C22 witness: an outpoint of a non-zero transaction hash is removed from a
\* map that holds another outpoint besides.
C22_Witness ==
    /\ ucall.op = "remove"
    /\ ucall.value # <<>>
    /\ ucall.arg[1].tx_hash # ZeroHash
    /\ DOMAIN utxos # {}
    /\ muhash # ucall.before_muhash

\* C23: apply_diff whose removed list names an outpoint that is neither
\* present nor added by the diff fails, and none of the pairs of its added
\* list has been inserted.
C23_MissingRemovedFailsDiff ==
    (/\ ucall.op = "apply_diff"
     /\ \E i \in 1..Len(ucall.arg.removed) :
           /\ ucall.arg.removed[i] \notin DOMAIN ucall.before_utxos
           /\ ucall.arg.removed[i] \notin AddedOutPoints(ucall.arg))
        => /\ ~ucall.ok
           /\ \A o \in AddedOutPoints(ucall.arg) \ DOMAIN ucall.before_utxos :
                 o \notin DOMAIN utxos

\* C24: when apply_diff returns an error, map and MuHash are what they were
\* before the call.
C24_FailedDiffRolledBack ==
    (ucall.op = "apply_diff" /\ ~ucall.ok) => UnchangedByCall

\* C26: when apply_diff returns Ok on the map S, the map is S plus the pairs
\* of added, minus the outpoints of removed.
C26_AppliedDiffResult ==
    (ucall.op = "apply_diff" /\ ucall.ok)
        => LET diff == ucall.arg
               S == ucall.before_utxos
           IN  /\ DOMAIN utxos = (DOMAIN S \cup AddedOutPoints(diff)) \ Range(diff.removed)
               /\ \A o \in DOMAIN utxos :
                     /\ o \in DOMAIN S => utxos[o] = S[o]
                     /\ \A i \in 1..Len(diff.added) :
                           diff.added[i][1] = o => utxos[o] = diff.added[i][2]

\* C26 witness: on a map holding only o1 with value 100, the diff adding o2
\* with value 50 and removing o1.
C26_Witness ==
    /\ ucall.op = "apply_diff" /\ ucall.ok
    /\ Len(ucall.arg.added) = 1 /\ Len(ucall.arg.removed) = 1
    /\ DOMAIN ucall.before_utxos = {ucall.arg.removed[1]}
    /\ ucall.before_utxos[ucall.arg.removed[1]].value = 100
    /\ ucall.arg.added[1][1] # ucall.arg.removed[1]
    /\ ucall.arg.added[1][2].value = 50
    /\ DOMAIN utxos = {ucall.arg.added[1][1]}

\* C25: while apply_diff(d) runs, the map a reader finds is the map as it
\* was before the call or the map as it is when the call returns.
C25_DiffAtomicForReaders ==
    applying.active
        => utxos \in {applying.pre,
                      apply_diff(applying.pre, MuHashNew, applying.diff).utxos}

\* C28: validate_tx returns Ok for a coinbase transaction (one input, its
\* prev_tx_hash all-zero) whether or not its outpoint is in the view.
C28_CoinbaseAccepted ==
    (vcall.called /\ is_coinbase(vcall.inputs)) => vcall.ok

InputOutPoints(inputs) == {OutPointOf(inputs[i]) : i \in 1..Len(inputs)}

\* C29: for a transaction that is not a coinbase, validate_tx returns Ok
\* exactly when every input outpoint is in the view and none occurs twice;
\* it returns NotFound only for an outpoint that is missing and does so when
\* an outpoint is missing and none in the view is repeated; it returns
\* AlreadySpent only for an outpoint of the view that is repeated and does so
\* when all are in the view and one is repeated; the view stays as it was.
C29_ValidateTxResult ==
    (vcall.called /\ ~is_coinbase(vcall.inputs)) =>
        LET inputs == vcall.inputs
            outs == [i \in 1..Len(inputs) |-> OutPointOf(inputs[i])]
            present == \A i \in 1..Len(inputs) : outs[i] \in DOMAIN vcall.before
            repeated(o) == \E i, j \in 1..Len(inputs) : i # j /\ outs[i] = o /\ outs[j] = o
        IN  /\ vcall.ok <=> (present /\ NoDuplicates(outs))
            /\ ~vcall.ok => vcall.err \in {"NotFound", "AlreadySpent"}
            /\ vcall.err = "NotFound" =>
                   vcall.outpoint[1] \in InputOutPoints(inputs) \ DOMAIN vcall.before
            /\ vcall.err = "AlreadySpent" =>
                   /\ vcall.outpoint[1] \in DOMAIN vcall.before
                   /\ repeated(vcall.outpoint[1])
            /\ (present /\ ~NoDuplicates(outs)) => vcall.err = "AlreadySpent"
            /\ (~present /\ \A o \in DOMAIN vcall.before : ~repeated(o))
                   => vcall.err = "NotFound"
            /\ view = vcall.before

\* a transaction of three inputs is refused for its repeated outpoint
C29_Witness ==
    /\ vcall.called
    /\ ~is_coinbase(vcall.inputs)
    /\ Len(vcall.inputs) = 3
    /\ vcall.err = "AlreadySpent"
    /\ view = vcall.before

\* C30: Block.validate returns Ok exactly when header.merkle_root is
\* calculate_merkle_root of the block's transactions, and MerkleRootMismatch
\* otherwise; so the block of no transactions and all-zero merkle_root is Ok.
C30_ValidateByMerkleRoot ==
    bcall.called =>
        /\ bcall.ok <=> bcall.merkle_root = calculate_merkle_root(bcall.transactions)
        /\ ~bcall.ok => bcall.err = "MerkleRootMismatch"
        /\ (bcall.transactions = <<>> /\ bcall.merkle_root = RawHash(ZeroHash)) => bcall.ok

\* C31: check_proof_of_work(block) is true exactly when the hash of the
\* block is at most target_from_bits(bits), equality included, or the block
\* is a genesis block with non-zero bits; validate_mining_rules returns
\* MiningRuleViolation when it is false.
C31_ProofOfWorkAtMostTarget ==
    pow.op = "validate_mining_rules" =>
        LET block == pow.block
            exempt == is_genesis(block.parents_by_level) /\ block.bits # [i \in 1..U32Len |-> 0]
            target == target_from_bits(block.bits)
        IN  /\ pow.pow_ok <=> (exempt \/ block.hash = target \/ SliceLess(block.hash, target))
            /\ ~pow.pow_ok => (~pow.ok /\ pow.err = "MiningRuleViolation")

\* the value the compact form stands for: mantissa byte j (0 the least)
\* has weight 256^(j + exponent - 3); what falls below weight 1 is shifted
\* out, and from a shift of 29 bytes on the value is zero
ShiftedMantissa(bits) ==
    LET shift == exponent(bits) - 3
    IN  IF shift >= MaxTargetShift THEN ZeroTarget
        ELSE [i \in 1..TargetLen |->
                 LET j == TargetLen - i - shift
                 IN  IF j \in 0..(MantissaLen - 1) THEN bits[U32Len - j] ELSE 0]

\* C32: target_from_bits(bits) is mantissa >> 8*(3-exponent) for exponent
\* <= 3, mantissa << 8*(exponent-3) for a shift below 29 bytes, else zero.
C32_TargetFromBits ==
    pow.op = "target_from_bits" => pow.target = ShiftedMantissa(pow.bits)

\* C33: right after a successful add_block(B), block_relations has B with
\* parents the concatenation of the parent levels, the children of every
\* parent that has relations contain B, and get_blue_score(B), the
\* blue_score of B's relations and the blue_score returned are equal.
C33_AddBlockCommitted ==
    (adds > 0 /\ last.ok) =>
        LET B == last.block
            all_parents == Flatten(last.parents_by_level)
        IN  /\ B \in DOMAIN block_relations
            /\ block_relations[B].parents = all_parents
            /\ \A p \in Range(all_parents) \cap DOMAIN block_relations :
                   Contains(block_relations[p].children, B)
            /\ B \in DOMAIN blue_scores
            /\ blue_scores[B] = block_relations[B].blue_score
            /\ blue_scores[B] = last.data.blue_score

\* a block with two parents, one of them known, has just been added
C33_Witness ==
    /\ adds > 0
    /\ last.ok
    /\ last.block \in DOMAIN blue_scores
    /\ blue_scores[last.block] = last.data.blue_score
    /\ Len(Flatten(last.parents_by_level)) = 2
    /\ \E p \in Range(Flatten(last.parents_by_level)) :
           /\ p \in DOMAIN block_relations
           /\ Contains(block_relations[p].children, last.block)

\* C34: when add_block(B) has returned data and update_virtual_state(B)
\* follows, a data.blue_score above the blue_score VirtualState had makes
\* selected_tip = B, blue_score = get_blue_score(B) and merge_set =
\* data.merge_set_blues.
C34_UpdateUsesEngineScore ==
    (upd.called /\ last.ok /\ upd.block = last.block
        /\ last.data.blue_score > upd.before.blue_score)
        => /\ virtual_state.selected_tip = last.block
           /\ virtual_state.blue_score = blue_scores[last.block]
           /\ virtual_state.merge_set = last.data.merge_set_blues

\* C35: two engines given the same blocks, each block after its parents,
\* hold for every block the same blue_score, selected_parent and, as sets,
\* merge_set_blues and merge_set_reds.
C35_DataDependsOnPastOnly ==
    \A h \in DOMAIN block_relations \cap DOMAIN twin.relations :
        LET a == block_relations[h]
            b == twin.relations[h]
        IN  /\ a.blue_score = b.blue_score
            /\ a.selected_parent = b.selected_parent
            /\ Range(a.merge_set_blues) = Range(b.merge_set_blues)
            /\ Range(a.merge_set_reds) = Range(b.merge_set_reds)

\* C36: after any sequence of add_block calls, for all p and c in the
\* relations mapping c is in children(p) if and only if p is in parents(c),
\* and children(p) holds no hash twice.
C36_ChildrenMirrorParents ==
    \A p \in DOMAIN block_relations :
        /\ \A c \in DOMAIN block_relations :
               Contains(block_relations[p].children, c)
                   <=> Contains(block_relations[c].parents, p)
        /\ NoDuplicates(block_relations[p].children)

\* the greatest header blue_score among the blocks the two calls carry
GreatestSubmitted ==
    LET scores == {claimed[vconc.threads[t].block].blue_score : t \in Threads}
    IN  CHOOSE m \in scores : \A n \in scores : n <= m

\* C38: under any interleaving of concurrent update_virtual_state calls the
\* blue_score of VirtualState never decreases, and when all calls have
\* returned VirtualState describes the submitted block of greatest header
\* blue_score if that is above the value at the start.
C38_ConcurrentUpdatesKeepGreatest ==
    /\ [][virtual_state'.blue_score >= virtual_state.blue_score]_vars
    /\ []((DOMAIN vconc # {} /\ \A t \in Threads : vconc.threads[t].pc = "returned"
            /\ GreatestSubmitted > vconc.initial.blue_score)
           => /\ virtual_state.blue_score = GreatestSubmitted
              /\ \E t \in Threads :
                    /\ virtual_state.selected_tip = vconc.threads[t].block
                    /\ claimed[vconc.threads[t].block].blue_score = GreatestSubmitted)

\* C39: when UtxoCollection.apply_diff(d) has returned Ok, a view taken of
\* the collection before the call and updated with UtxoView.apply_diff(d)
\* holds the map the collection holds after the call; a change of the view
\* leaves the collection and its muhash as they were.
C39_ViewAgreesWithCollection ==
    /\ [][(/\ ucall.op = "apply_diff" /\ ucall.ok
           /\ view = ucall.before_utxos
           /\ ucall' = ucall
           /\ view' = view_apply_diff(view, ucall.arg))
          => view' = utxos']_vars
    /\ [][view' # view => (utxos' = utxos /\ muhash' = muhash)]_vars

\* the view has caught up with a collection whose diff added one outpoint
\* and removed another that was there
C39_Witness ==
    /\ ucall.op = "apply_diff" /\ ucall.ok
    /\ Len(ucall.arg.added) = 1 /\ Len(ucall.arg.removed) = 1
    /\ ucall.arg.removed[1] \in DOMAIN ucall.before_utxos
    /\ ucall.arg.added[1][1] \in DOMAIN utxos
    /\ view = utxos
    /\ view = view_apply_diff(ucall.before_utxos, ucall.arg)

\* C11: add_block of a block that lists a parent without relations returns
\* Err(NoValidParent) and writes nothing (stated for a block not yet known:
\* it is still absent afterwards and no children list names it).
C11_UnknownParentRejected ==
    (last.block # ZeroHash /\ last.fresh /\ ~last.parents_known)
        => /\ ~last.ok
           /\ last.block \notin DOMAIN block_relations
           /\ last.block \notin DOMAIN blue_scores
           /\ \A p \in DOMAIN block_relations :
                  ~Contains(block_relations[p].children, last.block)

\* C14: a known block's relations record is never replaced and its children
\* list only grows: every step keeps the record's fields and keeps the old
\* children list as a prefix of the new one.
C14_RelationsWrittenOnce ==
    [][\A p \in DOMAIN block_relations :
          /\ p \in DOMAIN block_relations'
          /\ block_relations'[p].parents = block_relations[p].parents
          /\ block_relations'[p].selected_parent = block_relations[p].selected_parent
          /\ block_relations'[p].blue_score = block_relations[p].blue_score
          /\ block_relations'[p].merge_set_blues = block_relations[p].merge_set_blues
          /\ block_relations'[p].merge_set_reds = block_relations[p].merge_set_reds
          /\ Range(block_relations[p].children) \subseteq Range(block_relations'[p].children)
          /\ Len(block_relations[p].children) <= Len(block_relations'[p].children)]_vars

TypeOK ==
    /\ k \in KValues
    /\ DOMAIN blue_scores = DOMAIN block_relations
    /\ DOMAIN block_relations \subseteq DOMAIN header

====
